---- MODULE Spec2Model ----
(***************************************************************************)
(* Model of the Ripes pipeline primitives (pipelineobjects.h) and of the   *)
(* VSRTL immediate decoder: Signal, Reg/RegBase, Combinational, Mux, Gate, *)
(* ALU and Immediate.                                                      *)
(*                                                                         *)
(* Machine words are sequences of bits, index 1 holding bit 0 (the least   *)
(* significant bit), because a 32-bit unsigned value does not fit the      *)
(* integers of the model checker.  A uint32_t and an int are both 32-bit   *)
(* patterns; the cast between them keeps the pattern.                      *)
(***************************************************************************)
EXTENDS Integers, Sequences, FiniteSets, TLC

\* uint32_t / int / int32_t: 32 bits.
WordBits == 32

\* ASSERT_SIZE: static_assert(n >= 1 && n <= 64).
MaxSignalWidth == 64

----------------------------------------------------------------------------
(* Bit patterns *)

Pow2(k) == 2 ^ k

ZeroVec(n) == [i \in 1..n |-> 0]

OnesVec(n) == [i \in 1..n |-> 1]

\* A 32-bit literal written as its eight hexadecimal digits, most significant first.
Hex(h) == [i \in 1..WordBits |-> (h[8 - ((i - 1) \div 4)] \div Pow2((i - 1) % 4)) % 2]

\* The value of bits lo..hi of v (at most 30 bits) as a natural number.
RECURSIVE Val(_, _, _)
Val(v, lo, hi) == IF hi < lo THEN 0 ELSE v[lo] + 2 * Val(v, lo + 1, hi)

Lo16(v) == Val(v, 1, 16)

Hi16(v) == Val(v, 17, 32)

\* The 32-bit pattern with low half lo and high half hi (each in 0..65535).
Join16(lo, hi) ==
  [i \in 1..WordBits |-> IF i <= 16 THEN (lo \div Pow2(i - 1)) % 2
                                    ELSE (hi \div Pow2(i - 17)) % 2]

\* A small natural number as a uint32_t.
U32(x) == Join16(x % 65536, x \div 65536)

Byte(v, k) == Val(v, 8 * k + 1, 8 * k + 8)

\* uint32_t operators of C++: arithmetic is modulo 2^32.
Add32(a, b) ==
  LET lo == Lo16(a) + Lo16(b)
      hi == Hi16(a) + Hi16(b) + (lo \div 65536)
  IN  Join16(lo % 65536, hi % 65536)

Sub32(a, b) ==
  LET lo == Lo16(a) - Lo16(b)
      borrow == IF lo < 0 THEN 1 ELSE 0
      hi == Hi16(a) - Hi16(b) - borrow
  IN  Join16((lo + 65536) % 65536, (hi + 65536) % 65536)

Mul32(a, b) ==
  LET c0 == Byte(a, 0) * Byte(b, 0)
      c1 == Byte(a, 0) * Byte(b, 1) + Byte(a, 1) * Byte(b, 0)
      c2 == Byte(a, 0) * Byte(b, 2) + Byte(a, 1) * Byte(b, 1) + Byte(a, 2) * Byte(b, 0)
      c3 == Byte(a, 0) * Byte(b, 3) + Byte(a, 1) * Byte(b, 2)
              + Byte(a, 2) * Byte(b, 1) + Byte(a, 3) * Byte(b, 0)
      t1 == c1 + (c0 \div 256)
      t2 == c2 + (t1 \div 256)
      t3 == c3 + (t2 \div 256)
  IN  Join16((c0 % 256) + 256 * (t1 % 256), (t2 % 256) + 256 * (t3 % 256))

LessU(a, b) ==
  \/ Hi16(a) < Hi16(b)
  \/ Hi16(a) = Hi16(b) /\ Lo16(a) < Lo16(b)

\* Comparison of two int values (two's complement).
LessS(a, b) ==
  IF a[WordBits] # b[WordBits] THEN a[WordBits] = 1 ELSE LessU(a, b)

And32(a, b) == [i \in 1..WordBits |-> IF a[i] = 1 /\ b[i] = 1 THEN 1 ELSE 0]

Or32(a, b) == [i \in 1..WordBits |-> IF a[i] = 1 \/ b[i] = 1 THEN 1 ELSE 0]

Xor32(a, b) == [i \in 1..WordBits |-> IF a[i] # b[i] THEN 1 ELSE 0]

\* a << s and a >> s on uint32_t, for a shift count s in 0..31.
Shl32(a, s) == [i \in 1..WordBits |-> IF i - s >= 1 THEN a[i - s] ELSE 0]

Shr32(a, s) == [i \in 1..WordBits |-> IF i + s <= WordBits THEN a[i + s] ELSE 0]

\* a / b on uint32_t for b # 0: restoring division, most significant bit first.
RECURSIVE DivStep(_, _, _, _, _)
DivStep(a, b, i, q, r) ==
  IF i = 0 THEN q
  ELSE LET top == r[WordBits]
           r2 == [j \in 1..WordBits |-> IF j = 1 THEN a[i] ELSE r[j - 1]]
           fits == top = 1 \/ ~LessU(r2, b)
       IN  DivStep(a, b, i - 1,
                   [q EXCEPT ![i] = IF fits THEN 1 ELSE 0],
                   IF fits THEN Sub32(r2, b) ELSE r2)

Div32(a, b) == DivStep(a, b, WordBits, ZeroVec(WordBits), ZeroVec(WordBits))

----------------------------------------------------------------------------
(* binutils.h: the helpers Signal is built on *)

\* buildVec(v, in): bit i of the vector is bit i of the uint32_t.
buildVec(n, in) == [i \in 1..n |-> IF i <= WordBits THEN in[i] ELSE 0]

\* accBVec(v): the vector's bits as a uint32_t.
accBVec(v) == [i \in 1..WordBits |-> IF i <= Len(v) THEN v[i] ELSE 0]

\* signextend<int32_t, B>(x): the bits of x from bit B up replaced by bit B-1.
signextend(B, x) ==
  [i \in 1..WordBits |-> IF i <= B \/ B > WordBits THEN x[i] ELSE x[B]]

----------------------------------------------------------------------------
VARIABLES
  last,      \* the last operation called and how it ended
  sN,        \* Signal<n>: the width n of the signal under test
  sValue,    \* Signal::m_value
  sArg,      \* the argument the signal was last built from
  sRead,     \* the result of the last cast of the signal
  m_current, \* Reg::m_current of every register, by position in RegBase::registers
  m_nextSaved, \* Reg::m_nextSaved
  m_next,    \* Reg::m_next
  wire,      \* the signals, owned by other components, that registers are connected to
  kind,      \* the class of the combinational component under test: Mux, Gate or ALU
  type,      \* Gate<inputs, n, type>: the GateType
  inputs,    \* Combinational<inputs, n>: the number of inputs (2 operands for the ALU)
  m_inputs,  \* Combinational::m_inputs, indexed from 0
  m_op1,     \* ALU::m_op1
  m_op2,     \* ALU::m_op2
  m_control, \* Combinational::m_control, ALU::m_control
  m_output,  \* Combinational::m_output, ALU::m_output
  data,      \* the signals the inputs and operands can be wired to
  ctrl,      \* the signal the control can be wired to
  opcode,    \* Immediate: the value on the input port opcode
  instr,     \* Immediate: the value on the input port instr
  imm,       \* Immediate: the value on the output port imm, <<>> until propagated
  m_reg,     \* Registers::m_reg, indexed from 0
  m_readData1, \* Registers::m_readData1
  m_readData2, \* Registers::m_readData2
  m_regWrite,  \* the signal Registers::m_regWrite refers to
  m_instr,     \* the signal Registers::m_instr refers to
  m_writeRegister, \* the signal Registers::m_writeRegister refers to
  m_writeData  \* the signal Registers::m_writeData refers to

sigVars == <<sN, sValue, sArg, sRead>>

regVars == <<m_current, m_nextSaved, m_next, wire>>

combVars == <<kind, type, inputs, m_inputs, m_op1, m_op2, m_control, m_output, data, ctrl>>

immVars == <<opcode, instr, imm>>

rfVars ==
  <<m_reg, m_readData1, m_readData2, m_regWrite, m_instr, m_writeRegister, m_writeData>>

vars == <<last, sigVars, regVars, combVars, immVars, rfVars>>

\* What an operation of one component leaves alone: the other components.
SignalFrame == UNCHANGED <<regVars, combVars, immVars, rfVars>>

RegFrame == UNCHANGED <<sigVars, combVars, immVars, rfVars>>

CombFrame == UNCHANGED <<sigVars, regVars, immVars, rfVars>>

ImmFrame == UNCHANGED <<sigVars, regVars, combVars, rfVars>>

RfFrame == UNCHANGED <<sigVars, regVars, combVars, immVars>>

Zero32 == ZeroVec(WordBits)

Done(name) == [op |-> name, outcome |-> "ok", msg |-> ""]

Threw(name, what) == [op |-> name, outcome |-> "throw", msg |-> what]

Started == [op |-> "init", outcome |-> "ok", msg |-> ""]

\* The operation returned a value.
Returned(name, value) == [op |-> name, outcome |-> "ok", msg |-> value]

\* The process ended: an assertion failed (abort) or a wild access faulted.
Aborted(name, what) == [op |-> name, outcome |-> "abort", msg |-> what]

\* The operation returned after undefined behaviour: what it read was arbitrary.
Undefined(name, what) == [op |-> name, outcome |-> "ub", msg |-> what]

Running == last.outcome # "abort"

\* A pointer is a pair: <<"null", 0>>, <<"wild", 0>> (an indeterminate, non-null
\* value) or the object it points to.
NullPtr == <<"null", 0>>

WildPtr == <<"wild", 0>>

\* A pointer member no constructor initializes holds an indeterminate value.
Uninitialized == {NullPtr, WildPtr}

Valid(p) == p \notin Uninitialized

\* Signal(uint32_t) and Signal(int): CREATE_VEC, then buildVec(m_value, (uint32_t)v).
Signal(n, v) == buildVec(n, v)

----------------------------------------------------------------------------
(* Signal<n> *)

\* The 32-bit arguments the model builds signals from.
Words ==
  { Hex(<<0, 0, 0, 0, 0, 0, 0, 0>>),
    Hex(<<0, 0, 0, 0, 0, 0, 0, 1>>),
    Hex(<<0, 0, 0, 0, 0, 0, 0, 5>>),
    Hex(<<0, 0, 0, 0, 15, 0, 15, 0>>),
    Hex(<<7, 15, 15, 15, 15, 15, 15, 15>>),
    Hex(<<8, 0, 0, 0, 0, 0, 0, 0>>),
    Hex(<<13, 14, 10, 13, 11, 14, 14, 15>>),
    Hex(<<15, 15, 15, 15, 15, 15, 15, 15>>) }

NoArg == <<"none", Zero32>>

\* Signal(std::string name = ""): CREATE_VEC leaves n zero bits.
InitSignal ==
  /\ sN \in 1..MaxSignalWidth
  /\ sValue = ZeroVec(sN)
  /\ sArg = NoArg
  /\ sRead = NoArg

\* Signal(uint32_t v, std::string name = "")
SignalFromUInt(v) ==
  /\ sValue' = buildVec(sN, v)
  /\ sArg' = <<"uint", v>>
  /\ sRead' = NoArg
  /\ last' = Done("Signal(uint32_t)")
  /\ UNCHANGED sN
  /\ SignalFrame

\* Signal(int v, std::string name = ""): buildVec(m_value, (uint32_t)v)
SignalFromInt(v) ==
  /\ sValue' = buildVec(sN, v)
  /\ sArg' = <<"int", v>>
  /\ sRead' = NoArg
  /\ last' = Done("Signal(int)")
  /\ UNCHANGED sN
  /\ SignalFrame

\* Signal(std::vector<bool> v, std::string name = "")
SignalFromVec(v) ==
  /\ IF Len(v) # sN
       THEN /\ last' = Threw("Signal(vector)", "Input vector size does not match Signal size")
            /\ UNCHANGED sigVars
       ELSE /\ sValue' = v
            /\ sArg' = <<"vec", Zero32>>
            /\ sRead' = NoArg
            /\ last' = Done("Signal(vector)")
            /\ UNCHANGED sN
  /\ SignalFrame

\* explicit operator int() const
CastInt ==
  /\ sRead' = <<"int", signextend(sN, accBVec(sValue))>>
  /\ last' = Done("operator int")
  /\ UNCHANGED <<sN, sValue, sArg>>
  /\ SignalFrame

\* explicit operator uint32_t() const
CastUInt ==
  /\ sRead' = <<"uint", accBVec(sValue)>>
  /\ last' = Done("operator uint32_t")
  /\ UNCHANGED <<sN, sValue, sArg>>
  /\ SignalFrame

\* explicit operator bool() const
CastBool ==
  /\ sRead' = <<"bool", [i \in 1..WordBits |-> IF i = 1 THEN sValue[1] ELSE 0]>>
  /\ last' = Done("operator bool")
  /\ UNCHANGED <<sN, sValue, sArg>>
  /\ SignalFrame

NextSignal ==
  \/ \E v \in Words : SignalFromUInt(v)
  \/ \E v \in Words : SignalFromInt(v)
  \/ \E v \in {OnesVec(sN), OnesVec(sN + 1)} : SignalFromVec(v)
  \/ CastInt
  \/ CastUInt
  \/ CastBool

NoSignal ==
  /\ sN = 1
  /\ sValue = ZeroVec(1)
  /\ sArg = NoArg
  /\ sRead = NoArg

----------------------------------------------------------------------------
(* Reg<n> and RegBase *)

\* The registers constructed, and the template argument n of Reg<n>.
NumRegs == 3

RegWidth == 1

NumWires == 1

Regs == 1..NumRegs

Wires == 1..NumWires

RegValues == [1..RegWidth -> {0, 1}]

\* What connect() can be given: another register's m_current, or a signal.
Producers == {<<"reg", r>> : r \in Regs} \cup {<<"wire", w>> : w \in Wires}

\* *p for a pointer to a producer.
Deref(p, cur) == IF p[1] = "reg" THEN cur[p[2]] ELSE wire[p[2]]

\* Reg(): registers.push_back(this); m_current and m_nextSaved are default
\* signals (all bits zero) and m_next is not initialized.
InitRegs ==
  /\ m_current = [r \in Regs |-> ZeroVec(RegWidth)]
  /\ m_nextSaved = [r \in Regs |-> ZeroVec(RegWidth)]
  /\ m_next \in [Regs -> Uninitialized]
  /\ wire \in [Wires -> RegValues \ {ZeroVec(RegWidth)}]

NoRegs ==
  /\ m_current = <<>>
  /\ m_nextSaved = <<>>
  /\ m_next = <<>>
  /\ wire = <<>>

\* A connect that also latches the producer's value into the register.
connectTransparent(r, p) ==
  /\ Running
  /\ m_next' = [m_next EXCEPT ![r] = p]
  /\ m_current' = [m_current EXCEPT ![r] = Deref(p, m_current)]
  /\ last' = Done("connect")
  /\ UNCHANGED <<m_nextSaved, wire>>
  /\ RegFrame

\* connect(Reg<n>& r) and connect(const Signal<n>* s): setInput, m_next = in.
connect(r, p) ==
  /\ Running
  /\ m_next' = [m_next EXCEPT ![r] = p]
  /\ last' = Done("connect")
  /\ UNCHANGED <<m_current, m_nextSaved, wire>>
  /\ RegFrame

\* The first pass of clockAll: reg->save() for every register from position i on,
\* in registry order.  save() asserts m_next != nullptr and copies *m_next.  The
\* result is the set of ways the pass can end: a failed assertion or a fault ends
\* the process; reading through a null pointer (assertions compiled out) or through
\* an indeterminate pointer is undefined, and yields any value when it returns.
RECURSIVE SavePass(_, _, _, _, _)
SavePass(i, cur, saved, next, tainted) ==
  IF i > NumRegs
    THEN {[saved |-> saved, outcome |-> IF tainted THEN "ub" ELSE "ok", msg |-> ""]}
    ELSE IF Valid(next[i])
      THEN SavePass(i + 1, cur, [saved EXCEPT ![i] = Deref(next[i], cur)], next, tainted)
      ELSE {[saved |-> saved, outcome |-> "abort",
             msg |-> IF next[i] = NullPtr THEN "assert(m_next != nullptr)" ELSE "fault"]}
           \cup {[saved |-> saved, outcome |-> "abort", msg |-> "fault"]}
           \cup UNION {SavePass(i + 1, cur, [saved EXCEPT ![i] = g], next, TRUE) :
                         g \in RegValues}

\* The second pass of clockAll: reg->clock() for every register, m_current = m_nextSaved.
ClockPass(cur, saved) == [r \in Regs |-> saved[r]]

\* A clockAll that saves and clocks each register in turn: the register-to-register
\* skew the two passes exist to prevent.
RECURSIVE InPlace(_, _, _, _)
InPlace(i, cur, saved, next) ==
  IF i > NumRegs
    THEN {[cur |-> cur, saved |-> saved, outcome |-> "ok", msg |-> ""]}
    ELSE IF Valid(next[i])
      THEN LET v == Deref(next[i], cur)
           IN  InPlace(i + 1, [cur EXCEPT ![i] = v], [saved EXCEPT ![i] = v], next)
      ELSE {[cur |-> cur, saved |-> saved, outcome |-> "abort", msg |-> "fault"]}

ClockAllSkewed(cur, saved, next) == InPlace(1, cur, saved, next)

\* RegBase::clockAll(): the save pass over every register, then the clock pass.
ClockAllOf(cur, saved, next) ==
  { [cur |-> IF s.outcome = "abort" THEN cur ELSE ClockPass(cur, s.saved),
     saved |-> s.saved, outcome |-> s.outcome, msg |-> s.msg] :
      s \in SavePass(1, cur, saved, next, FALSE) }

clockAll ==
  /\ Running
  /\ \E res \in ClockAllOf(m_current, m_nextSaved, m_next) :
       /\ m_current' = res.cur
       /\ m_nextSaved' = res.saved
       /\ last' = [op |-> "clockAll", outcome |-> res.outcome, msg |-> res.msg]
  /\ UNCHANGED <<m_next, wire>>
  /\ RegFrame

\* A reset that forgets the pending value.
ResetCurrentOnly(cur, saved) ==
  [cur |-> [r \in Regs |-> Signal(RegWidth, Zero32)], saved |-> saved]

\* RegBase::resetAll(): reg->reset() for every register,
\* m_current = Signal<n>(0); m_nextSaved = Signal<n>(0).
ResetAllOf(cur, saved) ==
  [cur |-> [r \in Regs |-> Signal(RegWidth, Zero32)],
   saved |-> [r \in Regs |-> Signal(RegWidth, Zero32)]]

resetAll ==
  /\ Running
  /\ m_current' = ResetAllOf(m_current, m_nextSaved).cur
  /\ m_nextSaved' = ResetAllOf(m_current, m_nextSaved).saved
  /\ last' = Done("resetAll")
  /\ UNCHANGED <<m_next, wire>>
  /\ RegFrame

NextRegs ==
  \/ \E r \in Regs, p \in Producers : connect(r, p)
  \/ clockAll
  \/ resetAll

----------------------------------------------------------------------------
(* Combinational<inputs, n>, Mux and Gate *)

\* The largest number of inputs a component under test is instantiated with.
MaxInputs == 3

\* The template argument n of the Mux or Gate under test.
CombWidth == 2

DataIds == {1, 2}

GateType == {"AND", "OR", "XOR"}

BitVectors(n) == [1..n -> {0, 1}]

\* bitcount(inputs): "control size = roof(log2(inputs))".
bitcount(k) == CHOOSE b \in 0..WordBits : Pow2(b) >= k /\ (b = 0 \/ Pow2(b - 1) < k)

DataPtrs == {<<"data", d>> : d \in DataIds}

CtrlPtr == <<"ctrl", 0>>

\* Combinational(): m_inputs is a vector of `inputs` null pointers, m_output a
\* default signal, and m_control is not initialized.
InitCombinational(kinds) ==
  /\ kind \in kinds \cap {"Mux", "Gate"}
  /\ type \in IF kind = "Gate" THEN GateType ELSE {"none"}
  /\ inputs \in 2..MaxInputs
  /\ m_inputs = [i \in 0..(inputs - 1) |-> NullPtr]
  /\ m_op1 = NullPtr
  /\ m_op2 = NullPtr
  /\ m_control \in Uninitialized
  /\ m_output = ZeroVec(CombWidth)
  /\ data \in [DataIds -> BitVectors(CombWidth)]
  \* a Gate never reads its control signal
  /\ ctrl \in IF kind = "Mux" THEN BitVectors(bitcount(inputs))
                              ELSE {ZeroVec(bitcount(inputs))}

NoCombinational ==
  /\ kind = "none"
  /\ type = "none"
  /\ inputs = 0
  /\ m_inputs = <<>>
  /\ m_op1 = NullPtr
  /\ m_op2 = NullPtr
  /\ m_control = NullPtr
  /\ m_output = <<>>
  /\ data = <<>>
  /\ ctrl = <<>>

\* A setInput that checks the lower end of the range only, and so stores an
\* index past the end in the last slot.
setInputClamped(input, sig) ==
  /\ Running
  /\ kind \in {"Mux", "Gate"}
  /\ IF input < 0
       THEN /\ last' = Returned("setInput", "false")
            /\ UNCHANGED m_inputs
       ELSE /\ m_inputs' = [m_inputs EXCEPT ![IF input >= inputs THEN inputs - 1 ELSE input] = sig]
            /\ last' = Returned("setInput", "true")
  /\ UNCHANGED <<kind, type, inputs, m_op1, m_op2, m_control, m_output, data, ctrl>>
  /\ CombFrame

\* bool setInput(int input, const Signal<n>* sig)
setInput(input, sig) ==
  /\ Running
  /\ kind \in {"Mux", "Gate"}
  /\ IF input < 0 \/ input >= inputs
       THEN /\ last' = Returned("setInput", "false")
            /\ UNCHANGED m_inputs
       ELSE /\ m_inputs' = [m_inputs EXCEPT ![input] = sig]
            /\ last' = Returned("setInput", "true")
  /\ UNCHANGED <<kind, type, inputs, m_op1, m_op2, m_control, m_output, data, ctrl>>
  /\ CombFrame

\* void setControl(const Signal<bitcount(inputs)>* sig), and ALU::setControl
setControl(sig) ==
  /\ Running
  /\ kind \in {"Mux", "Gate", "ALU"}
  /\ m_control' = sig
  /\ last' = Done("setControl")
  /\ UNCHANGED <<kind, type, inputs, m_inputs, m_op1, m_op2, m_output, data, ctrl>>
  /\ CombFrame

\* bool initialized()
initialized(ins, ctl) ==
  /\ ctl # NullPtr
  /\ \A i \in DOMAIN ins : ins[i] # NullPtr

\* The ways an operation can end once it has executed undefined behaviour with
\* `out` as its output and `values` the outputs it may write: the process faults,
\* or it returns having written any of them, or having written nothing.
UndefinedOutcomes(out, values) ==
  {[out |-> out, outcome |-> "abort", msg |-> "fault"]}
    \cup {[out |-> g, outcome |-> "ub", msg |-> ""] : g \in values \cup {out}}

\* A Mux that wraps the control value instead of using it as the index.
MuxUpdateFirst(ins, ctl, out) ==
  IF ~initialized(ins, ctl)
    THEN {[out |-> out, outcome |-> "throw", msg |-> "Mux not initialized"]}
    ELSE {[out |-> data[ins[0][2]], outcome |-> "ok", msg |-> ""]}

\* Mux::update(): m_output = *m_inputs[(uint32_t)*m_control] once initialized().
\* An index past the vector's end, like a read through an indeterminate
\* m_control, is undefined.
MuxUpdate(ins, ctl, out) ==
  IF ~initialized(ins, ctl)
    THEN {[out |-> out, outcome |-> "throw", msg |-> "Mux not initialized"]}
    ELSE IF ctl = WildPtr
      THEN UndefinedOutcomes(out, BitVectors(CombWidth))
      ELSE LET c == Val(accBVec(ctrl), 1, 30)
           IN  IF c < inputs
                 THEN {[out |-> data[ins[c][2]], outcome |-> "ok", msg |-> ""]}
                 ELSE UndefinedOutcomes(out, BitVectors(CombWidth))

\* An m_op whose OR lambda returns (bool)b alone.
m_opOrOfInput(t, a, b) ==
  CASE t = "AND" -> IF a = 1 /\ b = 1 THEN 1 ELSE 0
    [] t = "OR"  -> b
    [] t = "XOR" -> IF a # b THEN 1 ELSE 0

\* m_op of Gate(): a & (bool)b, a | (bool)b, a ^ (bool)b, on bits.
m_op(t, a, b) ==
  CASE t = "AND" -> IF a = 1 /\ b = 1 THEN 1 ELSE 0
    [] t = "OR"  -> IF a = 1 \/ b = 1 THEN 1 ELSE 0
    [] t = "XOR" -> IF a # b THEN 1 ELSE 0

\* The loop of Gate::update() from input i on, with accumulator b: the set of
\* values b can end with.  *input of a null input is undefined: any bit.
RECURSIVE GateFold(_, _, _, _)
GateFold(t, ins, i, b) ==
  IF i >= inputs THEN {b}
  ELSE IF ins[i] = NullPtr
    THEN UNION {GateFold(t, ins, i + 1, m_op(t, b, g)) : g \in {0, 1}}
    ELSE GateFold(t, ins, i + 1, m_op(t, b, data[ins[i][2]][1]))

\* A Gate::update() whose accumulator starts from false.
GateUpdateFromFalse(t, ins, out) ==
  IF \E i \in DOMAIN ins : ins[i] = NullPtr
    THEN UndefinedOutcomes(out, {Signal(CombWidth, U32(b)) : b \in GateFold(t, ins, 0, 0)})
    ELSE {[out |-> Signal(CombWidth, U32(b)), outcome |-> "ok", msg |-> ""] :
            b \in GateFold(t, ins, 0, 0)}

\* Gate::update(): bool b = true; b = m_op(b, *input) for every input;
\* m_output = Signal<n>(b).  It does not ask initialized().
GateUpdate(t, ins, out) ==
  IF \E i \in DOMAIN ins : ins[i] = NullPtr
    THEN UndefinedOutcomes(out, {Signal(CombWidth, U32(b)) : b \in GateFold(t, ins, 0, 1)})
    ELSE {[out |-> Signal(CombWidth, U32(b)), outcome |-> "ok", msg |-> ""] :
            b \in GateFold(t, ins, 0, 1)}

update ==
  /\ Running
  /\ kind \in {"Mux", "Gate"}
  /\ \E res \in IF kind = "Mux" THEN MuxUpdate(m_inputs, m_control, m_output)
                                ELSE GateUpdate(type, m_inputs, m_output) :
       /\ m_output' = res.out
       /\ last' = [op |-> "update", outcome |-> res.outcome, msg |-> res.msg]
  /\ UNCHANGED <<kind, type, inputs, m_inputs, m_op1, m_op2, m_control, data, ctrl>>
  /\ CombFrame

----------------------------------------------------------------------------
(* ALU<n>, for n = 32 *)

\* ALUDefs::CTRL_SIZE
CTRL_SIZE == 5

\* ALUDefs::OPCODE: an enumerator's value is its position, from 0.
OPCODE == <<"ADD", "SUB", "MUL", "DIV", "AND", "OR", "XOR", "SL", "SRA", "SRL",
            "LUI", "LT", "LTU", "EQ">>

\* The operand values the ALU under test is given.
AluWords ==
  { Hex(<<0, 0, 0, 0, 0, 0, 0, 0>>),
    Hex(<<0, 0, 0, 0, 0, 0, 0, 1>>),
    Hex(<<0, 0, 0, 0, 0, 0, 0, 3>>),
    Hex(<<0, 0, 0, 0, 0, 0, 0, 5>>),
    Hex(<<8, 0, 0, 0, 0, 0, 0, 0>>),
    Hex(<<15, 15, 15, 15, 15, 15, 15, 15>>) }

\* ALU(): m_output is a default signal; m_op1, m_op2 and m_control are not
\* initialized.
InitALU ==
  /\ kind = "ALU"
  /\ type = "none"
  /\ inputs = 2
  /\ m_inputs = <<>>
  /\ m_op1 \in Uninitialized
  /\ m_op2 \in Uninitialized
  /\ m_control \in Uninitialized
  /\ m_output = ZeroVec(WordBits)
  /\ data \in [DataIds -> AluWords]
  /\ ctrl \in BitVectors(CTRL_SIZE)

\* void setInputs(Signal<n>* s1, Signal<n>* s2)
setInputs(s1, s2) ==
  /\ Running
  /\ kind = "ALU"
  /\ m_op1' = s1
  /\ m_op2' = s2
  /\ last' = Done("setInputs")
  /\ UNCHANGED <<kind, type, inputs, m_inputs, m_control, m_output, data, ctrl>>
  /\ CombFrame

\* An opcode reader that looks at the low four bits of the control only.
OpNameLowBits(c) ==
  LET v == Val(accBVec(c), 1, 4)
  IN  IF v >= Len(OPCODE) THEN "invalid" ELSE OPCODE[v + 1]

\* An opcode reader that lets EQ fall through to the case before it.
OpNameEqAsLtu(c) ==
  LET x == signextend(CTRL_SIZE, accBVec(c))
  IN  IF x[WordBits] = 1 \/ Val(x, 1, 30) >= Len(OPCODE) THEN "invalid"
      ELSE IF OPCODE[Val(x, 1, 30) + 1] = "EQ" THEN "LTU"
      ELSE OPCODE[Val(x, 1, 30) + 1]

\* (ALUDefs::OPCODE)(int)*m_control: the enumerator the control value names, if any.
\* The cast to int sign-extends the 5-bit control.
OpName(c) ==
  LET x == signextend(CTRL_SIZE, accBVec(c))
  IN  IF x[WordBits] = 1 \/ Val(x, 1, 30) >= Len(OPCODE) THEN "invalid"
      ELSE OPCODE[Val(x, 1, 30) + 1]

Bool32(b) == IF b THEN U32(1) ELSE U32(0)

\* A shift count of 32 or more.
Overshift(b) == \E i \in (CTRL_SIZE + 1)..WordBits : b[i] = 1

\* An ALU whose signed comparison compares the unsigned views.
ALUValueUnsignedLT(op, a, b) ==
  CASE op = "ADD" -> Add32(a, b)
    [] op = "SUB" -> Sub32(a, b)
    [] op = "MUL" -> Mul32(a, b)
    [] op = "DIV" -> Div32(a, b)
    [] op = "AND" -> And32(a, b)
    [] op = "OR"  -> Or32(a, b)
    [] op = "XOR" -> Xor32(a, b)
    [] op = "SL"  -> Shl32(a, Val(b, 1, CTRL_SIZE))
    [] op = "SRA" -> Shr32(a, Val(b, 1, CTRL_SIZE))
    [] op = "SRL" -> Add32(signextend(WordBits, a), b)
    [] op = "LUI" -> b
    [] op = "LT"  -> Bool32(LessU(a, b))
    [] op = "LTU" -> Bool32(LessU(a, b))

\* The cases of the switch in ALU<n>::update(), for a = (uint32_t)*m_op1 and
\* b = (uint32_t)*m_op2 where the expression is defined; (int)*m_op1 is
\* signextend<int32_t, n> of the same bits.
ALUValue(op, a, b) ==
  CASE op = "ADD" -> Add32(a, b)
    [] op = "SUB" -> Sub32(a, b)
    [] op = "MUL" -> Mul32(a, b)
    [] op = "DIV" -> Div32(a, b)
    [] op = "AND" -> And32(a, b)
    [] op = "OR"  -> Or32(a, b)
    [] op = "XOR" -> Xor32(a, b)
    [] op = "SL"  -> Shl32(a, Val(b, 1, CTRL_SIZE))
    [] op = "SRA" -> Shr32(a, Val(b, 1, CTRL_SIZE))
    [] op = "SRL" -> Add32(signextend(WordBits, a), b)
    [] op = "LUI" -> b
    [] op = "LT"  -> Bool32(LessS(signextend(WordBits, a), signextend(WordBits, b)))
    [] op = "LTU" -> Bool32(LessU(a, b))

\* ALU<n>::update(): throws unless initialized(); division by zero and a shift
\* by 32 or more are undefined, as is a read through an indeterminate pointer;
\* EQ has no case and takes the default with every value outside the enumeration.
ALUUpdate(op1, op2, ctl, out) ==
  IF NullPtr \in {ctl, op1, op2}
    THEN {[out |-> out, outcome |-> "throw", msg |-> "Mux not initialized"]}
    ELSE IF WildPtr \in {ctl, op1, op2}
      THEN UndefinedOutcomes(out, AluWords)
      ELSE LET a == accBVec(data[op1[2]])
               b == accBVec(data[op2[2]])
               op == OpName(ctrl)
           IN  IF op \in {"EQ", "invalid"}
                 THEN {[out |-> out, outcome |-> "throw", msg |-> "Invalid ALU opcode"]}
                 ELSE IF \/ op = "DIV" /\ b = Zero32
                         \/ op \in {"SL", "SRA"} /\ Overshift(b)
                   THEN UndefinedOutcomes(out, AluWords)
                   ELSE {[out |-> Signal(WordBits, ALUValue(op, a, b)),
                          outcome |-> "ok", msg |-> ""]}

updateALU ==
  /\ Running
  /\ kind = "ALU"
  /\ \E res \in ALUUpdate(m_op1, m_op2, m_control, m_output) :
       /\ m_output' = res.out
       /\ last' = [op |-> "update", outcome |-> res.outcome, msg |-> res.msg]
  /\ UNCHANGED <<kind, type, inputs, m_inputs, m_op1, m_op2, m_control, data, ctrl>>
  /\ CombFrame

NextCombinational ==
  \/ \E i \in -1..inputs, p \in DataPtrs : setInput(i, p)
  \/ setControl(CtrlPtr)
  \/ update

NextALU ==
  \/ setInputs(<<"data", 1>>, <<"data", 2>>)
  \/ setControl(CtrlPtr)
  \/ updateALU

NextComb ==
  \/ \E i \in -1..inputs, p \in DataPtrs : setInput(i, p)
  \/ setInputs(<<"data", 1>>, <<"data", 2>>)
  \/ setControl(CtrlPtr)
  \/ update
  \/ updateALU

----------------------------------------------------------------------------
(* Immediate<XLEN>, for XLEN = 32 *)

\* The RVInstr enumerators the switch names, by case group.
UTypes == {"LUI", "AUIPC"}

Branches == {"BEQ", "BNE", "BLT", "BGE", "BLTU", "BGEU"}

LoadsAndImmediateOps ==
  {"LB", "LH", "LW", "LBU", "LHU", "ADDI", "SLTI", "SLTIU", "XORI", "ORI", "ANDI",
   "SLLI", "SRLI", "SRAI"}

Stores == {"SB", "SH", "SW"}

\* Some of the RVInstr enumerators the switch does not name.
OtherInstrs == {"NOP", "ADD", "SUB", "SLL", "ECALL"}

RVInstr ==
  UTypes \cup {"JAL", "JALR"} \cup Branches \cup LoadsAndImmediateOps \cup Stores
    \cup OtherInstrs

OneHot(k) == [i \in 1..WordBits |-> IF i = k + 1 THEN 1 ELSE 0]

Not32(a) == [i \in 1..WordBits |-> 1 - a[i]]

\* The instruction words the decoder under test is given: every word with one
\* bit set, every word with one bit clear, a few others, and the words that
\* carry the bits of 0xDEADBEEF in the immediate fields of each format.
InstrWords ==
  {OneHot(k) : k \in 0..(WordBits - 1)}
    \cup {Not32(OneHot(k)) : k \in 0..(WordBits - 1)}
    \cup { Hex(<<0, 0, 0, 0, 0, 0, 0, 0>>),
           Hex(<<15, 15, 15, 15, 15, 15, 15, 15>>),
           Hex(<<1, 2, 3, 4, 5, 0, 11, 7>>),
           Hex(<<10, 10, 10, 10, 10, 10, 10, 10>>),
           Hex(<<5, 5, 5, 5, 5, 5, 5, 5>>),
           Hex(<<13, 14, 10, 13, 11, 14, 14, 15>>),
           Hex(<<13, 14, 10, 13, 11, 0, 0, 0>>),
           Hex(<<14, 14, 15, 0, 0, 0, 0, 0>>),
           Hex(<<14, 14, 0, 0, 0, 7, 8, 0>>),
           Hex(<<6, 14, 15, 13, 11, 0, 0, 0>>) }

\* The word parsers of RVInstrParser: the fields of a word for the given field
\* widths, first element being the most significant field, each right-aligned.
RECURSIVE WidthsFrom(_, _)
WidthsFrom(widths, k) ==
  IF k > Len(widths) THEN 0 ELSE widths[k] + WidthsFrom(widths, k + 1)

ParseWord(widths, word) ==
  [k \in 0..(Len(widths) - 1) |->
     [i \in 1..WordBits |->
        IF i <= widths[k + 1] THEN word[WidthsFrom(widths, k + 2) + i] ELSE 0]]

decodeJ32Instr(word) == ParseWord(<<1, 10, 1, 8, 5, 7>>, word)

decodeB32Instr(word) == ParseWord(<<1, 6, 5, 5, 3, 4, 1, 7>>, word)

\* A U-type immediate that keeps the low 12 bits of the word.
ImmUUnmasked(w) == And32(w, Hex(<<15, 15, 15, 15, 15, 15, 15, 15>>))

\* case LUI, AUIPC: instr.uValue() & 0xfffff000
ImmU(w) == And32(w, Hex(<<15, 15, 15, 15, 15, 0, 0, 0>>))

\* case JAL
ImmJ(w) ==
  LET fields == decodeJ32Instr(w)
  IN  signextend(21, Or32(Or32(Shl32(fields[0], 20), Shl32(fields[1], 1)),
                          Or32(Shl32(fields[2], 11), Shl32(fields[3], 12))))

\* case JALR, the loads and the immediate operations: signextend<int32_t, 12>(instr >> 20)
ImmI(w) == signextend(12, Shr32(w, 20))

\* case BEQ .. BGEU
ImmB(w) ==
  LET fields == decodeB32Instr(w)
  IN  signextend(13, Or32(Or32(Shl32(fields[0], 12), Shl32(fields[1], 5)),
                          Or32(Shl32(fields[5], 1), Shl32(fields[6], 11))))

\* A branch immediate that places imm[11] one bit too low.
ImmBMisplaced(w) ==
  LET fields == decodeB32Instr(w)
  IN  signextend(13, Or32(Or32(Shl32(fields[0], 12), Shl32(fields[1], 5)),
                          Or32(Shl32(fields[5], 1), Shl32(fields[6], 10))))

\* case SB, SH, SW
ImmS(w) ==
  Or32(signextend(12, Shr32(And32(w, Hex(<<15, 14, 0, 0, 0, 0, 0, 0>>)), 20)),
       Shr32(And32(w, Hex(<<0, 0, 0, 0, 0, 15, 8, 0>>)), 7))

\* default
Sentinel == Hex(<<13, 14, 10, 13, 11, 14, 14, 15>>)

ImmediateMisplaced(op, w) ==
  CASE op \in UTypes -> ImmU(w)
    [] op = "JAL" -> ImmJ(w)
    [] op = "JALR" -> ImmI(w)
    [] op \in Branches -> ImmBMisplaced(w)
    [] op \in LoadsAndImmediateOps -> ImmI(w)
    [] op \in Stores -> ImmS(w)
    [] OTHER -> Sentinel

\* A decoder whose default case returns zero.
ImmediateDefaultZero(op, w) ==
  CASE op \in UTypes -> ImmU(w)
    [] op = "JAL" -> ImmJ(w)
    [] op = "JALR" -> ImmI(w)
    [] op \in Branches -> ImmB(w)
    [] op \in LoadsAndImmediateOps -> ImmI(w)
    [] op \in Stores -> ImmS(w)
    [] OTHER -> Zero32

\* The lambda that drives imm: Switch(opcode, RVInstr).
ImmediateOf(op, w) ==
  CASE op \in UTypes -> ImmU(w)
    [] op = "JAL" -> ImmJ(w)
    [] op = "JALR" -> ImmI(w)
    [] op \in Branches -> ImmB(w)
    [] op \in LoadsAndImmediateOps -> ImmI(w)
    [] op \in Stores -> ImmS(w)
    [] OTHER -> Sentinel

\* The component with its input ports driven and its output not yet propagated.
InitImmediate ==
  /\ opcode \in RVInstr
  /\ instr \in InstrWords
  /\ imm = <<>>

NoImmediate ==
  /\ opcode = "NOP"
  /\ instr = Zero32
  /\ imm = <<>>

\* The propagation of the output port: imm takes the lambda's value.
propagate ==
  /\ imm' = ImmediateOf(opcode, instr)
  /\ last' = Done("propagate")
  /\ UNCHANGED <<opcode, instr>>
  /\ ImmFrame

\* The input port opcode takes a new value; the output is stale until propagated.
driveOpcode(op) ==
  /\ imm # <<>>
  /\ opcode' = op
  /\ imm' = <<>>
  /\ last' = Done("drive")
  /\ UNCHANGED instr
  /\ ImmFrame

\* The input port instr takes a new value; the output is stale until propagated.
driveInstr(w) ==
  /\ imm # <<>>
  /\ instr' = w
  /\ imm' = <<>>
  /\ last' = Done("drive")
  /\ UNCHANGED opcode
  /\ ImmFrame

NextImmediate ==
  \/ propagate
  \/ \E op \in RVInstr : driveOpcode(op)
  \/ \E w \in InstrWords : driveInstr(w)

----------------------------------------------------------------------------
(* Registers: the register file *)

\* std::vector<uint32_t>(32, 0): the number of entries of m_reg.
NumEntries == 32

Entries == 0..(NumEntries - 1)

\* The entries the instruction words and the write port under test address.
RfIndices == {0, 5, 31}

\* The values presented as write data.
RfWords == {Hex(<<13, 14, 10, 13, 11, 14, 14, 15>>), Hex(<<0, 0, 0, 0, 0, 0, 0, 1>>)}

\* An instruction word with rs1 in bits 19:15 and rs2 in bits 24:20.
RfInstr(rs1, rs2) == Or32(Shl32(U32(rs1), 15), Shl32(U32(rs2), 20))

RfInstrWords == {RfInstr(a, b) : a \in RfIndices, b \in RfIndices}

\* Registers(), then setInputs(instr, writeReg, writeData, regWrite): every entry
\* and both read outputs are zero, and the four inputs refer to signals that
\* other components own.
InitRegisters ==
  /\ m_reg = [e \in Entries |-> Zero32]
  /\ m_readData1 = Zero32
  /\ m_readData2 = Zero32
  /\ m_regWrite = <<0>>
  /\ m_instr = Zero32
  /\ m_writeRegister = ZeroVec(5)
  /\ m_writeData = Zero32

NoRegisters ==
  /\ m_reg = <<>>
  /\ m_readData1 = <<>>
  /\ m_readData2 = <<>>
  /\ m_regWrite = <<>>
  /\ m_instr = <<>>
  /\ m_writeRegister = <<>>
  /\ m_writeData = <<>>

\* The component that owns the write-port signals gives them new values.
driveWritePort(en, rd, w) ==
  /\ m_regWrite' = <<en>>
  /\ m_writeRegister' = Signal(5, U32(rd))
  /\ m_writeData' = w
  /\ last' = Done("driveWritePort")
  /\ UNCHANGED <<m_reg, m_readData1, m_readData2, m_instr>>
  /\ RfFrame

\* The component that owns the instruction signal gives it a new value.
driveReadPort(word) ==
  /\ m_instr' = word
  /\ last' = Done("driveReadPort")
  /\ UNCHANGED <<m_reg, m_readData1, m_readData2, m_regWrite, m_writeRegister, m_writeData>>
  /\ RfFrame

\* A read port that forwards the write data presented for the entry it reads.
RegistersReadBypass(reg, word, en, rd, w) ==
  LET r1 == Val(And32(Shr32(word, 15), U32(31)), 1, 5)
      r2 == Val(And32(Shr32(word, 20), U32(31)), 1, 5)
      Read(r) == IF en = <<1>> /\ Val(accBVec(rd), 1, 5) = r /\ r # 0 THEN w ELSE reg[r]
  IN  [readData1 |-> Read(r1), readData2 |-> Read(r2)]

\* Registers::update(): the read outputs take the entries that bits 19:15 and
\* 24:20 of the instruction word address.
RegistersRead(reg, word, en, rd, w) ==
  LET r1 == Val(And32(Shr32(word, 15), U32(31)), 1, 5)
      r2 == Val(And32(Shr32(word, 20), U32(31)), 1, 5)
  IN  [readData1 |-> reg[r1], readData2 |-> reg[r2]]

RegistersUpdate ==
  /\ LET out == RegistersRead(m_reg, m_instr, m_regWrite, m_writeRegister, m_writeData)
     IN  /\ m_readData1' = out.readData1
         /\ m_readData2' = out.readData2
  /\ last' = Done("update")
  /\ UNCHANGED <<m_reg, m_regWrite, m_instr, m_writeRegister, m_writeData>>
  /\ RfFrame

\* A write path without the test for entry 0.
RegistersWriteAnyEntry(reg, en, rd, w) ==
  IF en = <<1>> THEN [reg EXCEPT ![Val(accBVec(rd), 1, 5)] = w] ELSE reg

\* Registers::clock(): with write-enable asserted and a nonzero destination
\* index, the entry at that index takes the write data.
RegistersWrite(reg, en, rd, w) ==
  LET d == Val(accBVec(rd), 1, 5)
  IN  IF en = <<1>> /\ d # 0 THEN [reg EXCEPT ![d] = w] ELSE reg

RegistersClock ==
  /\ m_reg' = RegistersWrite(m_reg, m_regWrite, m_writeRegister, m_writeData)
  /\ last' = Done("clock")
  /\ UNCHANGED <<m_readData1, m_readData2, m_regWrite, m_instr, m_writeRegister, m_writeData>>
  /\ RfFrame

\* Registers::clear(): for (auto& reg : m_reg) reg = 0;
RegistersClear ==
  /\ m_reg' = [e \in DOMAIN m_reg |-> Zero32]
  /\ last' = Done("clear")
  /\ UNCHANGED <<m_readData1, m_readData2, m_regWrite, m_instr, m_writeRegister, m_writeData>>
  /\ RfFrame

NextRegisters ==
  \/ \E en \in {0, 1}, rd \in RfIndices, w \in RfWords : driveWritePort(en, rd, w)
  \/ \E word \in RfInstrWords : driveReadPort(word)
  \/ RegistersUpdate
  \/ RegistersClock
  \/ RegistersClear

----------------------------------------------------------------------------
(* Specifications *)

InitSignalSpec ==
  last = Started /\ InitSignal /\ NoRegs /\ NoCombinational /\ NoImmediate /\ NoRegisters

SpecSignal == InitSignalSpec /\ [][NextSignal]_vars

InitRegSpec ==
  last = Started /\ NoSignal /\ InitRegs /\ NoCombinational /\ NoImmediate /\ NoRegisters

SpecReg == InitRegSpec /\ [][NextRegs]_vars

InitMuxSpec ==
  last = Started /\ NoSignal /\ NoRegs /\ InitCombinational({"Mux"}) /\ NoImmediate /\ NoRegisters

SpecMux == InitMuxSpec /\ [][NextCombinational]_vars

InitGateSpec ==
  last = Started /\ NoSignal /\ NoRegs /\ InitCombinational({"Gate"}) /\ NoImmediate /\ NoRegisters

SpecGate == InitGateSpec /\ [][NextCombinational]_vars

InitALUSpec == last = Started /\ NoSignal /\ NoRegs /\ InitALU /\ NoImmediate /\ NoRegisters

SpecALU == InitALUSpec /\ [][NextALU]_vars

InitCombSpec ==
  /\ last = Started /\ NoSignal /\ NoRegs /\ NoImmediate /\ NoRegisters
  /\ (InitCombinational({"Mux", "Gate"}) \/ InitALU)

SpecComb == InitCombSpec /\ [][NextComb]_vars

InitImmSpec ==
  /\ last = Started /\ NoSignal /\ NoRegs /\ NoCombinational /\ NoRegisters
  /\ InitImmediate

SpecImm == InitImmSpec /\ [][NextImmediate]_vars

InitRegistersSpec ==
  /\ last = Started /\ NoSignal /\ NoRegs /\ NoCombinational /\ NoImmediate
  /\ InitRegisters

SpecRegisters == InitRegistersSpec /\ [][NextRegisters]_vars

\* A datapath: the registers, connected to signals or to the first register, next
\* to one combinational component (a Mux or the ALU) whose inputs are
\* wired to signals of fixed value; the pointer members of the registers and of
\* the component start out null.
InitDatapathSpec ==
  /\ last = Started /\ NoSignal /\ NoImmediate /\ NoRegisters
  /\ InitRegs
  /\ m_next = [r \in Regs |-> NullPtr]
  /\ \/ /\ InitCombinational({"Mux"})
        /\ inputs = 2
        /\ data = [d \in DataIds |-> Signal(CombWidth, U32(d))]
        /\ ctrl = <<1>>
        /\ m_control = NullPtr
     \/ /\ InitALU
        /\ m_op1 = NullPtr /\ m_op2 = NullPtr /\ m_control = NullPtr
        /\ data = [d \in DataIds |-> U32(2 * d - 1)]
        /\ ctrl = Signal(CTRL_SIZE, U32(0))

NextDatapath ==
  \/ \E r \in Regs, p \in {<<"wire", 1>>, <<"reg", 1>>} : connect(r, p)
  \/ clockAll
  \/ resetAll
  \/ \E i \in 0..inputs, p \in {<<"data", 1>>} : setInput(i, p)
  \/ setInputs(<<"data", 1>>, <<"data", 2>>)
  \/ setControl(CtrlPtr)
  \/ update
  \/ updateALU

SpecDatapath == InitDatapathSpec /\ [][NextDatapath]_vars

----------------------------------------------------------------------------
(* Claims *)

AllConnected == \A r \in Regs : Valid(m_next[r])

\* C1: with every register connected, one clockAll() succeeds and leaves each
\* register's current value equal to the value its producer held immediately
\* before that clockAll(), whatever the positions of the registers in the
\* registry: a register fed by another register takes that register's
\* pre-clock value, never its just-updated one.
C1_ClockAllTakesPreEdgeValues ==
  [][(last'.op = "clockAll" /\ AllConnected) =>
       /\ last'.outcome = "ok"
       /\ \A r \in Regs : m_current'[r] = Deref(m_next[r], m_current)]_vars

\* A chain 1 -> 2 -> 3 in registry order has been clocked, and register 2's new
\* value differs from the value it handed to register 3.
C1_Witness ==
  /\ last.op = "clockAll" /\ last.outcome = "ok"
  /\ Valid(m_next[1])
  /\ m_next[2] = <<"reg", 1>>
  /\ m_next[3] = <<"reg", 2>>
  /\ m_current[2] # m_current[3]

\* The value a signal was built from, as an unbounded two's-complement integer:
\* bit i (from 1) of the argument of Signal(uint32_t) or Signal(int).
ArgBit(arg, i) ==
  IF i <= WordBits THEN arg[2][i]
  ELSE IF arg[1] = "int" THEN arg[2][WordBits] ELSE 0

\* A uint32_t and an int result as 64-bit two's-complement integers.
WidenUnsigned(r) == [i \in 1..MaxSignalWidth |-> IF i <= WordBits THEN r[i] ELSE 0]

WidenSigned(r) == [i \in 1..MaxSignalWidth |-> IF i <= WordBits THEN r[i] ELSE r[WordBits]]

\* C6: for every width n in 1..64 and every integer v, a Signal of width n built
\* from v reads back as unsigned equal to v masked to its low n bits, and as
\* signed equal to the sign-extension of those n bits from bit n-1.
C6_SignalReadsBackMaskedAndSignExtended ==
  sArg[1] \in {"uint", "int"} =>
    /\ sRead[1] = "uint" =>
         WidenUnsigned(sRead[2]) =
           [i \in 1..MaxSignalWidth |-> IF i <= sN THEN ArgBit(sArg, i) ELSE 0]
    /\ sRead[1] = "int" =>
         WidenSigned(sRead[2]) =
           [i \in 1..MaxSignalWidth |-> IF i <= sN THEN ArgBit(sArg, i) ELSE ArgBit(sArg, sN)]

\* C7: resetAll() leaves every register's current and pending value zero,
\* whatever the values and the wiring before it, and a second resetAll() leaves
\* the state of the first.
C7_ResetAllZeroesAndIsIdempotent ==
  last.op = "resetAll" =>
    /\ \A r \in Regs : /\ m_current[r] = ZeroVec(RegWidth)
                       /\ m_nextSaved[r] = ZeroVec(RegWidth)
    /\ ResetAllOf(m_current, m_nextSaved) = [cur |-> m_current, saved |-> m_nextSaved]

\* resetAll() has run on registers of which one is connected to a register, one to
\* a signal and one to nothing.
C7_Witness ==
  /\ last.op = "resetAll"
  /\ \E r \in Regs : ~Valid(m_next[r])
  /\ \E r \in Regs : m_next[r][1] = "reg"
  /\ \E r \in Regs : m_next[r][1] = "wire"

\* The control value of the component under test, as a number.
ControlValue == Val(ctrl, 1, Len(ctrl))

CombWired ==
  /\ kind \in {"Mux", "Gate"}
  /\ m_control = CtrlPtr
  /\ \A i \in DOMAIN m_inputs : Valid(m_inputs[i])

ALUWired ==
  /\ kind = "ALU"
  /\ Valid(m_op1) /\ Valid(m_op2) /\ Valid(m_control)

\* Some input, operand or control reference of the component has never been set.
SomeReferenceUnset ==
  \/ kind \in {"Mux", "Gate"} /\ ~CombWired
  \/ kind = "ALU" /\ ~ALUWired

\* C2: for a Mux, a Gate and an ALU, update() while any input, operand or
\* control reference is still unset fails with an error before any referenced
\* value is read, and leaves the output unchanged.
C2_UpdateWhileUnsetFails ==
  [][(last'.op = "update" /\ SomeReferenceUnset) =>
       (last'.outcome = "throw" /\ m_output' = m_output)]_vars

\* C3: for a fully wired Mux with k inputs, update() with a control value
\* c >= k is detected and fails with an error: the index is not used to read an
\* input and the output is unchanged.
C3_MuxControlOutOfRangeFails ==
  [][(last'.op = "update" /\ kind = "Mux" /\ CombWired /\ ControlValue >= inputs) =>
       (last'.outcome = "throw" /\ m_output' = m_output)]_vars

\* C4: for a fully wired ALU, update() with opcode DIV and operand 2 equal to
\* zero fails with an explicit error for every value of operand 1, and writes
\* no value to the output.
C4_DivisionByZeroFails ==
  [][(/\ last'.op = "update" /\ ALUWired
      /\ ControlValue = 3
      /\ \A i \in 1..WordBits : data[m_op2[2]][i] = 0) =>
       (last'.outcome = "throw" /\ m_output' = m_output)]_vars

C8_MuxSelectsInput ==
  [][(last'.op = "update" /\ kind = "Mux" /\ CombWired) =>
       \A i \in 0..(inputs - 1) :
         ControlValue = i =>
           (last'.outcome = "ok" /\ m_output' = data[m_inputs[i][2]])]_vars

\* A Mux with three inputs has selected its last input, whose value differs from
\* that of the other inputs.
C8_Witness ==
  /\ last.op = "update" /\ last.outcome = "ok"
  /\ kind = "Mux" /\ CombWired
  /\ inputs = 3 /\ ControlValue = 2
  /\ m_inputs[0] = m_inputs[1]
  /\ data[m_inputs[2][2]] # data[m_inputs[0][2]]
  /\ m_output = data[m_inputs[2][2]]

\* ---- C10 ----
\* The arithmetic the ALU results are compared with, defined on the bits of the
\* operands: a ripple-carry sum, the two's-complement difference, the
\* product by columns, and the orders decided at the highest differing bit.
RECURSIVE RippleAdd(_, _, _, _, _)
RippleAdd(a, b, i, carry, acc) ==
  IF i > WordBits THEN acc
  ELSE LET t == a[i] + b[i] + carry
       IN  RippleAdd(a, b, i + 1, t \div 2, Append(acc, t % 2))

SumMod(a, b) == RippleAdd(a, b, 1, 0, <<>>)

DiffMod(a, b) == RippleAdd(a, [i \in 1..WordBits |-> 1 - b[i]], 1, 1, <<>>)

\* Long multiplication by columns: bit k of the product is the parity of the
\* number of pairs of set bits a[i], b[k - i] plus the carry of column k - 1.
RECURSIVE Columns(_, _, _, _, _)
Columns(a, b, k, carry, acc) ==
  IF k > WordBits THEN acc
  ELSE LET t == carry + Cardinality({i \in 1..k : a[i] = 1 /\ b[k + 1 - i] = 1})
       IN  Columns(a, b, k + 1, t \div 2, Append(acc, t % 2))

ProdMod(a, b) == Columns(a, b, 1, 0, <<>>)

BelowUnsigned(a, b) ==
  \E i \in 1..WordBits :
    a[i] = 0 /\ b[i] = 1 /\ \A j \in (i + 1)..WordBits : a[j] = b[j]

BelowSigned(a, b) ==
  \/ a[WordBits] = 1 /\ b[WordBits] = 0
  \/ a[WordBits] = b[WordBits] /\ BelowUnsigned(a, b)

Flag(p) == [i \in 1..WordBits |-> IF i = 1 /\ p THEN 1 ELSE 0]

Selects(name) ==
  \E c \in 1..Len(OPCODE) : OPCODE[c] = name /\ ControlValue = c - 1

\* C10: with both operands and the control wired, update() returns normally and
\* leaves in the output: for ADD, SUB and MUL the sum, difference and product of
\* the operands modulo 2^32; for AND, OR and XOR the bitwise combination; for LUI
\* the second operand; for LT 1 if the first operand is below the second as signed
\* 32-bit numbers and 0 otherwise; for LTU the same with unsigned numbers.
C10_ALUComputesArithmeticAndComparisons ==
  [][(last'.op = "update" /\ ALUWired) =>
       LET a == data[m_op1[2]]
           b == data[m_op2[2]]
           Gives(name, value) ==
             Selects(name) => (last'.outcome = "ok" /\ m_output' = value)
       IN  /\ Gives("ADD", SumMod(a, b))
           /\ Gives("SUB", DiffMod(a, b))
           /\ Gives("MUL", ProdMod(a, b))
           /\ Gives("AND", [i \in 1..WordBits |-> a[i] * b[i]])
           /\ Gives("OR", [i \in 1..WordBits |-> a[i] + b[i] - a[i] * b[i]])
           /\ Gives("XOR", [i \in 1..WordBits |-> (a[i] + b[i]) % 2])
           /\ Gives("LUI", b)
           /\ Gives("LT", Flag(BelowSigned(a, b)))
           /\ Gives("LTU", Flag(BelowUnsigned(a, b)))]_vars

\* LT has run on -1 and 1 and left 1 in the output.
C10_Witness ==
  /\ last = Done("update")
  /\ ALUWired
  /\ Selects("LT")
  /\ data[m_op1[2]] = OnesVec(WordBits)
  /\ data[m_op2[2]] = U32(1)
  /\ m_output = U32(1)

\* ---- C9 ----
\* Bit i (0 = least significant) of the immediate that the RISC-V instruction
\* formats encode in the instruction word w.
InstrBit(w, j) == w[j + 1]

ImmBitU(w, i) == IF i >= 12 THEN InstrBit(w, i) ELSE 0

ImmBitI(w, i) == IF i <= 10 THEN InstrBit(w, 20 + i) ELSE InstrBit(w, 31)

ImmBitS(w, i) ==
  IF i <= 4 THEN InstrBit(w, 7 + i)
  ELSE IF i <= 10 THEN InstrBit(w, 20 + i)
  ELSE InstrBit(w, 31)

ImmBitB(w, i) ==
  IF i = 0 THEN 0
  ELSE IF i <= 4 THEN InstrBit(w, 7 + i)
  ELSE IF i <= 10 THEN InstrBit(w, 20 + i)
  ELSE IF i = 11 THEN InstrBit(w, 7)
  ELSE InstrBit(w, 31)

ImmBitJ(w, i) ==
  IF i = 0 THEN 0
  ELSE IF i <= 10 THEN InstrBit(w, 20 + i)
  ELSE IF i = 11 THEN InstrBit(w, 20)
  ELSE IF i <= 19 THEN InstrBit(w, i)
  ELSE InstrBit(w, 31)

Propagated == last.op = "propagate" /\ imm # <<>>

\* C9: once propagated, the output is the immediate of the opcode's format:
\* U-type for LUI and AUIPC, J-type for JAL, I-type for JALR, the loads and the
\* immediate operations, B-type for the branches, S-type for the stores.
C9_ImmediateMatchesInstructionFormat ==
  Propagated =>
    LET Is(bit(_, _)) == imm = [i \in 1..WordBits |-> bit(instr, i - 1)]
    IN  /\ opcode \in UTypes => Is(ImmBitU)
        /\ opcode = "JAL" => Is(ImmBitJ)
        /\ opcode \in {"JALR"} \cup LoadsAndImmediateOps => Is(ImmBitI)
        /\ opcode \in Branches => Is(ImmBitB)
        /\ opcode \in Stores => Is(ImmBitS)

\* A branch whose word has only bit 7 set has propagated the immediate 0x800.
C9_Witness ==
  /\ Propagated
  /\ opcode = "BEQ"
  /\ instr = OneHot(7)
  /\ imm = OneHot(11)

\* The opcodes the claims call immediate-bearing.
ImmediateBearing ==
  {"LUI", "AUIPC", "JAL", "JALR", "LB", "LH", "LW", "LBU", "LHU", "ADDI", "SLTI",
   "SLTIU", "XORI", "ORI", "ANDI", "SLLI", "SRLI", "SRAI", "BEQ", "BNE", "BLT",
   "BGE", "BLTU", "BGEU", "SB", "SH", "SW"}

\* 0xDEADBEEF, bit 0 first.
DeadBeef ==
  <<1, 1, 1, 1,  0, 1, 1, 1,  0, 1, 1, 1,  1, 1, 0, 1,
    1, 0, 1, 1,  0, 1, 0, 1,  0, 1, 1, 1,  1, 0, 1, 1>>

\* ---- C11 ----
\* C11: for every opcode that is not LUI, AUIPC, JAL, JALR, a load, an immediate
\* operation, a branch or a store, the propagated output is 0xDEADBEEF whatever
\* the instruction word, and the propagation returns normally.
C11_OtherOpcodesGiveSentinel ==
  (Propagated /\ opcode \notin ImmediateBearing) =>
    (last.outcome = "ok" /\ imm = DeadBeef)

\* A register-register ADD has propagated the sentinel for a word that is an
\* I-type encoding of another value.
C11_Witness ==
  /\ Propagated
  /\ opcode = "ADD"
  /\ instr = OneHot(20)
  /\ imm = DeadBeef

\* ---- C20 ----
\* C20: for every immediate-bearing opcode and every instruction word, the
\* propagated output differs from 0xDEADBEEF.
C20_ImmediatesDifferFromSentinel ==
  (Propagated /\ opcode \in ImmediateBearing) => imm # DeadBeef

\* LUI has propagated the immediate of the word 0xDEADBEEF itself: 0xDEADB000.
C20_Witness ==
  /\ Propagated
  /\ opcode = "LUI"
  /\ instr = DeadBeef
  /\ imm = [i \in 1..WordBits |-> IF i <= 12 THEN 0 ELSE DeadBeef[i]]

\* ---- C12 ----
\* C12: for a fully wired ALU, update() with a control value from 14 to 31
\* fails with the invalid-opcode error for all operand values and leaves the
\* output unchanged.
C12_ControlOutsideEnumerationFails ==
  [][(last'.op = "update" /\ ALUWired /\ ControlValue >= Len(OPCODE)) =>
       /\ last'.outcome = "throw"
       /\ last'.msg = "Invalid ALU opcode"
       /\ m_output' = m_output]_vars

\* update() has thrown on a fully wired ALU whose control is 31, which the cast
\* to int reads as -1, with operands on which ADD would give a nonzero sum.
C12_Witness ==
  /\ last = Threw("update", "Invalid ALU opcode")
  /\ ALUWired
  /\ ControlValue = 31
  /\ data[m_op1[2]] = U32(3)
  /\ data[m_op2[2]] = U32(5)
  /\ m_output = Zero32

\* ---- C13 ----
\* C13: setInput(index, ref) on a component with k inputs returns false for
\* every index < 0 or >= k and then changes no input reference, control
\* reference or output; for every index in [0,k) it returns true and changes
\* only that input reference.
C13_SetInputChangesOnlyItsSlot ==
  [][\A i \in -1..inputs, p \in DataPtrs :
       (last'.op = "setInput" /\ setInput(i, p)) =>
         /\ m_control' = m_control
         /\ m_output' = m_output
         /\ DOMAIN m_inputs' = DOMAIN m_inputs
         /\ IF i < 0 \/ i >= inputs
              THEN last'.msg = "false" /\ m_inputs' = m_inputs
              ELSE /\ last'.msg = "true"
                   /\ m_inputs'[i] = p
                   /\ \A j \in DOMAIN m_inputs \ {i} : m_inputs'[j] = m_inputs[j]]_vars

\* setInput has returned false on a Mux whose control and first input are wired
\* and whose last input is still unset.
C13_Witness ==
  /\ last = Returned("setInput", "false")
  /\ kind = "Mux"
  /\ m_control = CtrlPtr
  /\ Valid(m_inputs[0])
  /\ m_inputs[inputs - 1] = NullPtr

\* ---- C18 ----
\* Bit 0 of the signal input i of the component is wired to.
InputBit(i) == data[m_inputs[i][2]][1]

\* The left fold of a gate operator, given by its arithmetic on bits, over bit 0
\* of the inputs from input i on, with accumulator acc.
RECURSIVE FoldFrom(_, _, _)
FoldFrom(t, i, acc) ==
  IF i >= inputs THEN acc
  ELSE LET b == InputBit(i)
       IN  FoldFrom(t, i + 1,
                    CASE t = "AND" -> acc * b
                      [] t = "OR"  -> acc + b - acc * b
                      [] t = "XOR" -> (acc + b) % 2)

GateWired == kind = "Gate" /\ CombWired

\* C18: for a fully wired Gate of any type and input count, update() sets bit 0
\* of the output to the left fold of the gate's operator over bit 0 of each input
\* in input order, starting from true, and every higher output bit to zero; the
\* higher bits of the inputs do not matter.
C18_GateFoldsBitZero ==
  [][(last'.op = "update" /\ GateWired) =>
       /\ last'.outcome = "ok"
       /\ m_output' = [k \in 1..CombWidth |-> IF k = 1 THEN FoldFrom(type, 0, 1) ELSE 0]]_vars

\* An AND gate with three inputs has output 0 although every input is nonzero:
\* one input holds 2, whose bit 0 is clear.
C18_Witness ==
  /\ last = Done("update")
  /\ GateWired /\ type = "AND" /\ inputs = 3
  /\ \E d \in DataIds : data[d] = <<0, 1>>
  /\ \E d \in DataIds : data[d] = <<1, 1>>
  /\ \E i \in DOMAIN m_inputs : InputBit(i) = 0
  /\ \E i \in DOMAIN m_inputs : InputBit(i) = 1
  /\ m_output = <<0, 0>>

\* ---- C19 ----
\* C19: a fully wired Gate of type OR outputs 1 after update() for every
\* combination of input values, all inputs zero included.
C19_OrGateAlwaysOne ==
  [][(last'.op = "update" /\ GateWired /\ type = "OR") =>
       (last'.outcome = "ok" /\ Val(m_output', 1, CombWidth) = 1)]_vars

\* An OR gate whose inputs are all wired to signals holding zero has output 1.
C19_Witness ==
  /\ last = Done("update")
  /\ GateWired /\ type = "OR"
  /\ \A i \in DOMAIN m_inputs : data[m_inputs[i][2]] = ZeroVec(CombWidth)
  /\ Val(m_output, 1, CombWidth) = 1

\* ---- C17 ----
\* C17: if some register has never been connected to a producer, clockAll() is
\* rejected with an error in the save pass, and changes no register's current
\* value.
C17_ClockAllRejectsUnconnected ==
  [][(last'.op = "clockAll" /\ ~AllConnected) =>
       /\ \/ last'.outcome = "throw"
          \/ last' = Aborted("clockAll", "assert(m_next != nullptr)")
       /\ m_current' = m_current]_vars

\* ---- C14 ----
\* C14: after any sequence of update, clock (with any write-enable, destination
\* index and write data) and clear, entry 0 of the register file is zero.
C14_EntryZeroStaysZero ==
  m_reg # <<>> => \A i \in 1..WordBits : m_reg[0][i] = 0

\* clock() has run with write-enable asserted, destination index 0 and write
\* data 0xDEADBEEF, on a register file that holds a nonzero entry.
C14_Witness ==
  /\ last = Done("clock")
  /\ m_regWrite = <<1>>
  /\ m_writeRegister = <<0, 0, 0, 0, 0>>
  /\ m_writeData = DeadBeef
  /\ m_reg[5] = DeadBeef
  /\ m_reg[0] = Zero32

\* ---- C15 ----
\* The entry a 5-bit field of the instruction word addresses, the field starting
\* at bit lo.
Addressed(lo) == Val(m_instr, lo + 1, lo + 5)

WriteIndex == Val(m_writeRegister, 1, 5)

\* C15: with write-enable asserted, a nonzero destination index d and write
\* data w presented, the entries stay as committed until clock(), a read
\* returns the committed entries, and clock() puts w in entry d and changes no
\* other entry.
C15_WriteVisibleAfterClock ==
  [][/\ last'.op \in {"driveWritePort", "driveReadPort", "update"} => m_reg' = m_reg
     /\ last'.op = "update" =>
          /\ m_readData1' = m_reg[Addressed(15)]
          /\ m_readData2' = m_reg[Addressed(20)]
     /\ (last'.op = "clock" /\ m_regWrite = <<1>> /\ WriteIndex # 0) =>
          /\ m_reg'[WriteIndex] = m_writeData
          /\ \A e \in Entries \ {WriteIndex} : m_reg'[e] = m_reg[e]]_vars

\* With a write of 0xDEADBEEF to entry 5 presented and not yet clocked, update()
\* has read entry 5 and returned the value committed before, 1.
C15_Witness ==
  /\ last = Done("update")
  /\ m_regWrite = <<1>>
  /\ WriteIndex = 5
  /\ m_writeData = DeadBeef
  /\ Addressed(15) = 5
  /\ m_reg[5] = U32(1)
  /\ m_readData1 = U32(1)

\* ---- C16 ----
\* C16: the current and pending values of the registers change only in
\* clockAll() and resetAll(): connect() on a register, and setInput(),
\* setInputs(), setControl() and update() on a combinational component or the
\* ALU, leave every register's current and pending value unchanged.
C16_OnlyClockAndResetChangeRegisters ==
  [][last'.op \notin {"clockAll", "resetAll"} =>
       (m_current' = m_current /\ m_nextSaved' = m_nextSaved)]_vars

\* update() has changed the output of the component while a register that holds 1
\* is connected to a register that holds 0: the pending change is not yet
\* visible.
C16_Witness ==
  /\ last.op = "update" /\ last.outcome = "ok"
  /\ Val(m_output, 1, Len(m_output)) # 0
  /\ \E r \in Regs :
       /\ m_next[r] = <<"reg", 1>>
       /\ m_current[r] # m_current[1]

====
